---- MODULE Spec2Model ----
(***************************************************************************)
(* Model of the AQI computation engine of openaq-aqi-predictor:            *)
(*   src/src/aqi.py            unit conversion, breakpoint interpolation,  *)
(*                             max aggregation, category                   *)
(*   src/backend/predict.py    request standardisation, exact AQI          *)
(*   src/backend/app.py        the /predict handler                        *)
(*   src/src/preprocessing.py  raw record cleaning                         *)
(*                                                                         *)
(* Text (unit names, pollutant names, column names, cell text) is a        *)
(* sequence of one-character strings, so that strip / lower / replace are  *)
(* computed as Python computes them.  The three non-ASCII characters that  *)
(* occur are written by code point: "U+00B5" (micro sign), "U+00B3"        *)
(* (superscript three), "U+03BC" (Greek small mu).                         *)
(*                                                                         *)
(* Numbers are exact rationals [n, d] (d > 0, lowest terms), plus the      *)
(* float values Inf and NaN, and Python's None.  Python computes in IEEE   *)
(* doubles; the rational model is exact where the doubles are.             *)
(***************************************************************************)
EXTENDS Integers, Sequences, FiniteSets, TLC

VARIABLES pending, log, frame, status, prev, cleans

vars == <<pending, log, frame, status, prev, cleans>>

(***************************************************************************)
(* Values                                                                  *)
(***************************************************************************)
None == [kind |-> "None"]
NaN == [kind |-> "nan"]
Inf == [kind |-> "inf"]

Abs(x) == IF x < 0 THEN -x ELSE x

RECURSIVE GCD(_, _)
GCD(a, b) == IF b = 0 THEN a ELSE GCD(b, a % b)

\* n/d divided through by g (g divides both; its sign makes d positive).
Reduce(n, d, g) == [kind |-> "num", n |-> n \div g, d |-> d \div g]

\* The rational n/d in lowest terms with a positive denominator.
Rat(n, d) == Reduce(n, d, (IF d < 0 THEN -1 ELSE 1) * GCD(Abs(n), Abs(d)))

Int2Rat(n) == Rat(n, 1)

IsRat(x) == x.kind = "num"
IsNumber(x) == x.kind \in {"num", "inf"}

\* Float arithmetic on non-negative-scaled values: Inf absorbs (every factor
\* the code multiplies or divides by is a positive constant).
FMul(x, y) == IF x.kind = "inf" \/ y.kind = "inf" THEN Inf ELSE Rat(x.n * y.n, x.d * y.d)
FDiv(x, y) == IF x.kind = "inf" THEN Inf ELSE Rat(x.n * y.d, x.d * y.n)
FAdd(x, y) == IF x.kind = "inf" \/ y.kind = "inf" THEN Inf ELSE Rat(x.n * y.d + y.n * x.d, x.d * y.d)
FSub(x, y) == IF x.kind = "inf" THEN Inf ELSE Rat(x.n * y.d - y.n * x.d, x.d * y.d)
\* x <= y on floats that are not NaN.
FLe(x, y) ==
    IF y.kind = "inf" THEN TRUE
    ELSE IF x.kind = "inf" THEN FALSE
    ELSE x.n * y.d <= y.n * x.d
FLt(x, y) == FLe(x, y) /\ x # y

(***************************************************************************)
(* Text: Python's str.strip, str.lower and str.replace                     *)
(***************************************************************************)
Whitespace == {" ", "\t", "\n"}

UpperLetters ==
    <<"A","B","C","D","E","F","G","H","I","J","K","L","M",
      "N","O","P","Q","R","S","T","U","V","W","X","Y","Z">>
LowerLetters ==
    <<"a","b","c","d","e","f","g","h","i","j","k","l","m",
      "n","o","p","q","r","s","t","u","v","w","x","y","z">>

LowerChar(c) ==
    IF \E i \in DOMAIN UpperLetters : UpperLetters[i] = c
    THEN LowerLetters[CHOOSE i \in DOMAIN UpperLetters : UpperLetters[i] = c]
    ELSE c

Lower(s) == [i \in DOMAIN s |-> LowerChar(s[i])]

RECURSIVE LStrip(_)
LStrip(s) == IF s # <<>> /\ Head(s) \in Whitespace THEN LStrip(Tail(s)) ELSE s

RECURSIVE RStrip(_)
RStrip(s) ==
    IF s # <<>> /\ s[Len(s)] \in Whitespace THEN RStrip(SubSeq(s, 1, Len(s) - 1)) ELSE s

Strip(s) == RStrip(LStrip(s))

StartsWith(s, old) == Len(s) >= Len(old) /\ SubSeq(s, 1, Len(old)) = old

\* s.replace(old, new) for a non-empty old: leftmost non-overlapping occurrences.
RECURSIVE Replace(_, _, _)
Replace(s, old, new) ==
    IF s = <<>> THEN <<>>
    ELSE IF StartsWith(s, old)
         THEN new \o Replace(SubSeq(s, Len(old) + 1, Len(s)), old, new)
         ELSE <<Head(s)>> \o Replace(Tail(s), old, new)

(***************************************************************************)
(* Unit and pollutant names                                                *)
(***************************************************************************)
\* A Python str value; None, NaN and numbers are the other kinds of value.
Str(s) == [kind |-> "str", s |-> s]

UG_M3 == Str(<<"u","g","/","m","3">>)
MG_M3 == Str(<<"m","g","/","m","3">>)
PPM == Str(<<"p","p","m">>)
PPB == Str(<<"p","p","b">>)

PM25 == <<"p","m","2","5">>
PM10 == <<"p","m","1","0">>
O3 == <<"o","3">>
CO == <<"c","o">>
SO2 == <<"s","o","2">>
NO2 == <<"n","o","2">>

\* Breakpoint(bp_low, bp_high, i_low, i_high); concentrations in thousandths.
Breakpoint(lo, hi, ilo, ihi) ==
    [bp_low |-> Rat(lo, 1000), bp_high |-> Rat(hi, 1000), i_low |-> ilo, i_high |-> ihi]

BREAKPOINTS ==
    (PM25 :> [unit |-> UG_M3, table |-> <<
        Breakpoint(0, 12000, 0, 50),
        Breakpoint(12100, 35400, 51, 100),
        Breakpoint(35500, 55400, 101, 150),
        Breakpoint(55500, 150400, 151, 200),
        Breakpoint(150500, 250400, 201, 300),
        Breakpoint(250500, 350400, 301, 400),
        Breakpoint(350500, 500400, 401, 500)>>]) @@
    (PM10 :> [unit |-> UG_M3, table |-> <<
        Breakpoint(0, 54000, 0, 50),
        Breakpoint(55000, 154000, 51, 100),
        Breakpoint(155000, 254000, 101, 150),
        Breakpoint(255000, 354000, 151, 200),
        Breakpoint(355000, 424000, 201, 300),
        Breakpoint(425000, 504000, 301, 400),
        Breakpoint(505000, 604000, 401, 500)>>]) @@
    (O3 :> [unit |-> PPM, table |-> <<
        Breakpoint(0, 54, 0, 50),
        Breakpoint(55, 70, 51, 100),
        Breakpoint(71, 85, 101, 150),
        Breakpoint(86, 105, 151, 200),
        Breakpoint(106, 200, 201, 300),
        Breakpoint(201, 604, 301, 500)>>]) @@
    (CO :> [unit |-> PPM, table |-> <<
        Breakpoint(0, 4400, 0, 50),
        Breakpoint(4500, 9400, 51, 100),
        Breakpoint(9500, 12400, 101, 150),
        Breakpoint(12500, 15400, 151, 200),
        Breakpoint(15500, 30400, 201, 300),
        Breakpoint(30500, 40400, 301, 400),
        Breakpoint(40500, 50400, 401, 500)>>]) @@
    (SO2 :> [unit |-> PPB, table |-> <<
        Breakpoint(0, 35000, 0, 50),
        Breakpoint(36000, 75000, 51, 100),
        Breakpoint(76000, 185000, 101, 150),
        Breakpoint(186000, 304000, 151, 200),
        Breakpoint(305000, 604000, 201, 300),
        Breakpoint(605000, 804000, 301, 400),
        Breakpoint(805000, 1004000, 401, 500)>>]) @@
    (NO2 :> [unit |-> PPB, table |-> <<
        Breakpoint(0, 53000, 0, 50),
        Breakpoint(54000, 100000, 51, 100),
        Breakpoint(101000, 360000, 101, 150),
        Breakpoint(361000, 649000, 151, 200),
        Breakpoint(650000, 1249000, 201, 300),
        Breakpoint(1250000, 1649000, 301, 400),
        Breakpoint(1650000, 2049000, 401, 500)>>])

\* The iteration order of BREAKPOINTS.keys() (dict insertion order).
BreakpointKeys == <<PM25, PM10, O3, CO, SO2, NO2>>

MOLECULAR_WEIGHTS ==
    (O3 :> Rat(4800, 100)) @@ (NO2 :> Rat(4601, 100)) @@
    (SO2 :> Rat(6407, 100)) @@ (CO :> Rat(2801, 100))

MolarVolume == Rat(2445, 100)
Thousand == Rat(1000, 1)

ugm3_to_ppm(value_ugm3, mw) == FDiv(FMul(value_ugm3, MolarVolume), FMul(mw, Thousand))

ppm_to_ugm3(value_ppm, mw) == FDiv(FMul(FMul(value_ppm, mw), Thousand), MolarVolume)

MICRO == "U+00B5"
CUBED == "U+00B3"

\* aqi._normalize_unit: unit is None or a str.
normalize_unit_aqi(unit) ==
    IF unit = None THEN None
    ELSE Str(Replace(Replace(Replace(Replace(Lower(Strip(unit.s)),
                 <<MICRO>>, <<"u">>),
                 <<"u","g","/","m","^","3">>, UG_M3.s),
                 <<"u","g","/","m",CUBED>>, UG_M3.s),
                 <<"m","g","/","m",CUBED>>, MG_M3.s))

NoConversion == <<None, None>>

\* Mutant of convert_gas: the mg/m3 branches forgotten.
convert_gas_no_mg(value, unit, target_unit, mw) ==
    IF target_unit = PPM /\ unit = PPB THEN <<FDiv(value, Thousand), target_unit>>
    ELSE IF target_unit = PPM /\ unit = UG_M3 THEN <<ugm3_to_ppm(value, mw), target_unit>>
    ELSE IF target_unit = PPM /\ unit = PPM THEN <<value, target_unit>>
    ELSE IF target_unit = PPB /\ unit = PPM THEN <<FMul(value, Thousand), target_unit>>
    ELSE IF target_unit = PPB /\ unit = UG_M3
         THEN <<FMul(ugm3_to_ppm(value, mw), Thousand), target_unit>>
    ELSE IF target_unit = PPB /\ unit = PPB THEN <<value, target_unit>>
    ELSE NoConversion

\* convert_to_standard for a gas of molecular weight mw, from the normalized
\* unit to target_unit.
convert_gas(value, unit, target_unit, mw) ==
    IF target_unit = PPM /\ unit = PPB THEN <<FDiv(value, Thousand), target_unit>>
    ELSE IF target_unit = PPM /\ unit = UG_M3 THEN <<ugm3_to_ppm(value, mw), target_unit>>
    ELSE IF target_unit = PPM /\ unit = MG_M3
         THEN <<ugm3_to_ppm(FMul(value, Thousand), mw), target_unit>>
    ELSE IF target_unit = PPM /\ unit = PPM THEN <<value, target_unit>>
    ELSE IF target_unit = PPB /\ unit = PPM THEN <<FMul(value, Thousand), target_unit>>
    ELSE IF target_unit = PPB /\ unit = UG_M3
         THEN <<FMul(ugm3_to_ppm(value, mw), Thousand), target_unit>>
    ELSE IF target_unit = PPB /\ unit = MG_M3
         THEN <<FMul(ugm3_to_ppm(FMul(value, Thousand), mw), Thousand), target_unit>>
    ELSE IF target_unit = PPB /\ unit = PPB THEN <<value, target_unit>>
    ELSE NoConversion

\* convert_to_standard once the unit is normalized and target_unit looked up.
convert_normalized(pollutant, value, unit, target_unit) ==
    IF unit = target_unit THEN <<value, target_unit>>
    ELSE IF pollutant \in {PM25, PM10} THEN
        IF unit = MG_M3 THEN <<FMul(value, Thousand), target_unit>>
        ELSE IF unit = UG_M3 THEN <<value, target_unit>>
        ELSE NoConversion
    ELSE IF pollutant \notin DOMAIN MOLECULAR_WEIGHTS THEN NoConversion
    ELSE convert_gas(value, unit, target_unit, MOLECULAR_WEIGHTS[pollutant])

\* convert_to_standard(pollutant, value, unit) -> (value, unit) | (None, None)
convert_to_standard(pollutant, value, unit) ==
    IF value = None \/ value = NaN THEN NoConversion
    ELSE IF pollutant \notin DOMAIN BREAKPOINTS THEN NoConversion
    ELSE convert_normalized(pollutant, value, normalize_unit_aqi(unit),
                            BREAKPOINTS[pollutant].unit)

\* Mutant of Interpolate: the offset "+ bp.i_low" forgotten.
InterpolateNoOffset(bp, converted) ==
    FMul(FDiv(Int2Rat(bp.i_high - bp.i_low), FSub(bp.bp_high, bp.bp_low)),
         FSub(converted, bp.bp_low))

\* The linear interpolation of compute_iaqi inside breakpoint bp.
Interpolate(bp, converted) ==
    FAdd(FMul(FDiv(Int2Rat(bp.i_high - bp.i_low), FSub(bp.bp_high, bp.bp_low)),
              FSub(converted, bp.bp_low)),
         Int2Rat(bp.i_low))

\* Mutant of ScanTable: the tier taken as the half-open [bp_low, bp_high).
RECURSIVE ScanTableHalfOpen(_, _, _)
ScanTableHalfOpen(table, converted, i) ==
    IF i > Len(table) THEN None
    ELSE IF FLe(table[i].bp_low, converted) /\ FLt(converted, table[i].bp_high)
         THEN Interpolate(table[i], converted)
         ELSE ScanTableHalfOpen(table, converted, i + 1)

\* The for loop of compute_iaqi from tier i on: the first tier that contains
\* the value decides.
RECURSIVE ScanTable(_, _, _)
ScanTable(table, converted, i) ==
    IF i > Len(table) THEN None
    ELSE IF FLe(table[i].bp_low, converted) /\ FLe(converted, table[i].bp_high)
         THEN Interpolate(table[i], converted)
         ELSE ScanTable(table, converted, i + 1)

\* compute_iaqi after the conversion: conv = (converted, converted_unit).
iaqi_of_converted(pollutant, conv) ==
    IF conv[1] = None \/ conv[2] = None THEN None
    ELSE ScanTable(BREAKPOINTS[pollutant].table, conv[1], 1)

\* compute_iaqi(pollutant, concentration, unit=None)
compute_iaqi(pollutant, concentration, unit) ==
    IF pollutant \notin DOMAIN BREAKPOINTS THEN None
    ELSE iaqi_of_converted(pollutant,
            convert_to_standard(pollutant, concentration,
                IF unit = None THEN BREAKPOINTS[pollutant].unit ELSE unit))

\* A Python dict passed where None is allowed too: d is the function.
Dict(d) == [kind |-> "dict", d |-> d]

\* Mutant of Max2: the smaller of the two (min taken for max).
Max2Min(a, b) == IF FLe(b, a) THEN b ELSE a

Max2(a, b) == IF FLe(b, a) THEN a ELSE b

\* np.max over a non-empty list of floats.
RECURSIVE MaxOf(_)
MaxOf(xs) == IF Len(xs) = 1 THEN xs[1] ELSE Max2(xs[1], MaxOf(Tail(xs)))

\* units.get(pollutant) under "if units:": None for no dict, an empty dict or
\* a missing key.
UnitFor(units, pollutant) ==
    IF units = None THEN None
    ELSE IF pollutant \in DOMAIN units.d THEN units.d[pollutant]
    ELSE None

\* What one pass of the loop of compute_aqi_row appends to iaqis.
Appended(iaqi) == IF iaqi # None THEN <<iaqi>> ELSE <<>>

IaqiFor(row_values, units, pollutant) ==
    IF pollutant \notin DOMAIN row_values THEN <<>>
    ELSE Appended(compute_iaqi(pollutant, row_values[pollutant], UnitFor(units, pollutant)))

\* The for loop of compute_aqi_row from key i on: the list iaqis it builds.
\* row_values is a dict (a function on the keys present); units is None or a
\* dict.
RECURSIVE CollectIaqis(_, _, _)
CollectIaqis(row_values, units, i) ==
    IF i > Len(BreakpointKeys) THEN <<>>
    ELSE IaqiFor(row_values, units, BreakpointKeys[i])
         \o CollectIaqis(row_values, units, i + 1)

\* The first sub-index of the list taken instead of the largest (a wrong
\* reading of the code).
FirstOrNone(iaqis) == IF iaqis = <<>> THEN None ELSE iaqis[1]

MaxOrNone(iaqis) == IF iaqis = <<>> THEN None ELSE MaxOf(iaqis)

\* compute_aqi_row(row_values, units=None)
compute_aqi_row(row_values, units) == MaxOrNone(CollectIaqis(row_values, units, 1))

\* A category name (the str aqi_category returns).
Category(name) == [kind |-> "category", name |-> name]

Good == Category("Good")
Moderate == Category("Moderate")
USG == Category("Unhealthy for Sensitive Groups")
Unhealthy == Category("Unhealthy")
VeryUnhealthy == Category("Very Unhealthy")
Hazardous == Category("Hazardous")

\* aqi_category with every threshold exclusive (a wrong reading of the code).
aqi_category_strict(aqi) ==
    IF aqi = None \/ aqi = NaN THEN None
    ELSE IF FLt(aqi, Int2Rat(50)) THEN Good
    ELSE IF FLt(aqi, Int2Rat(100)) THEN Moderate
    ELSE IF FLt(aqi, Int2Rat(150)) THEN USG
    ELSE IF FLt(aqi, Int2Rat(200)) THEN Unhealthy
    ELSE IF FLt(aqi, Int2Rat(300)) THEN VeryUnhealthy
    ELSE Hazardous

\* aqi_category(aqi)
aqi_category(aqi) ==
    IF aqi = None \/ aqi = NaN THEN None
    ELSE IF FLe(aqi, Int2Rat(50)) THEN Good
    ELSE IF FLe(aqi, Int2Rat(100)) THEN Moderate
    ELSE IF FLe(aqi, Int2Rat(150)) THEN USG
    ELSE IF FLe(aqi, Int2Rat(200)) THEN Unhealthy
    ELSE IF FLe(aqi, Int2Rat(300)) THEN VeryUnhealthy
    ELSE IF FLe(aqi, Int2Rat(500)) THEN Hazardous
    ELSE Hazardous

(***************************************************************************)
(* backend/predict.py and backend/app.py                                   *)
(***************************************************************************)
INPUT_POLLUTANTS == <<PM25, PM10, NO2, O3, CO, SO2>>

InputPollutantSet == {INPUT_POLLUTANTS[i] : i \in DOMAIN INPUT_POLLUTANTS}

\* dict.get(key) of a dict held as a function.
Get(d, key) == IF key \in DOMAIN d THEN d[key] ELSE None

\* Python truthiness of an Optional[str].
Truthy(unit) == unit # None /\ unit.s # <<>>

\* One pass of the loop of _standardize_pollutants.
standardize_one(pollutant, value, unit) ==
    IF value = None \/ value = NaN THEN None
    ELSE IF Truthy(unit) THEN convert_to_standard(pollutant, value, unit)[1]
    ELSE value

\* _standardize_pollutants(pollutant_values, unit_values); unit_values is a
\* dict, possibly the empty dict.
standardize_pollutants(pollutant_values, unit_values) ==
    [pollutant \in InputPollutantSet |->
        standardize_one(pollutant, Get(pollutant_values, pollutant),
            IF DOMAIN unit_values # {} THEN Get(unit_values, pollutant) ELSE None)]

WithCategory(aqi_exact) == <<aqi_exact, aqi_category(aqi_exact)>>

\* compute_exact_aqi(standardized) -> (aqi_exact, category)
compute_exact_aqi(standardized) ==
    IF ~(\E pollutant \in DOMAIN standardized : standardized[pollutant] # None)
    THEN <<None, None>>
    ELSE WithCategory(compute_aqi_row(standardized, None))

\* The response of /predict once standardized, the exact AQI and the predicted
\* AQI are known (app.py lines 103-125).
Response(standardized, exact, use_exact, aqi_pred, used_model) ==
    [http |-> 200,
     aqi_pred |-> aqi_pred,
     aqi_category_pred |-> IF use_exact THEN exact[2]
                           ELSE IF aqi_pred # None THEN aqi_category(aqi_pred) ELSE None,
     aqi_exact |-> exact[1],
     aqi_category_exact |-> exact[2],
     used_model |-> used_model,
     used_exact |-> exact[1] # None,
     standardized |-> standardized]

\* Mutant of Decide: the exact AQI is used whenever it is defined, whether or
\* not every pollutant was provided.
DecideAnyExact(standardized, exact, all_pollutants_provided, artifacts, model_out) ==
    IF exact[1] # None
    THEN Response(standardized, exact, TRUE, exact[1], FALSE)
    ELSE IF ~artifacts.model
         THEN Response(standardized, exact, FALSE, None, FALSE)
         ELSE Response(standardized, exact, FALSE, model_out, TRUE)

\* The choice between the exact AQI and the model (app.py lines 84-101).
Decide(standardized, exact, all_pollutants_provided, artifacts, model_out) ==
    IF all_pollutants_provided /\ exact[1] # None
    THEN Response(standardized, exact, TRUE, exact[1], FALSE)
    ELSE IF ~artifacts.model
         THEN Response(standardized, exact, FALSE, None, FALSE)
         ELSE Response(standardized, exact, FALSE, model_out, TRUE)

Handle(standardized, artifacts, model_out) ==
    Decide(standardized, compute_exact_aqi(standardized),
           \A pollutant \in InputPollutantSet : Get(standardized, pollutant) # None,
           artifacts, model_out)

\* The /predict handler.  request = [pollutants, units] (units None when the
\* request carries none); artifacts = [model, feature_cols]: whether a model is
\* loaded and whether feature columns are available; model_out is what the
\* external model.predict(X)[0] returns when it is called.
predict(request, artifacts, model_out) ==
    IF ~artifacts.feature_cols THEN [http |-> 500]
    ELSE Handle(standardize_pollutants(request.pollutants,
                    IF request.units = None THEN <<>> ELSE request.units.d),
                artifacts, model_out)

(***************************************************************************)
(* Calls of the AQI functions.  A session is a sequence of calls chosen in *)
(* the initial state; each action serves the call at the head of pending   *)
(* and appends the call and what it returned to log.                       *)
(***************************************************************************)
ProbesPerTier == 2

Pollutants == DOMAIN BREAKPOINTS

Table(p) == BREAKPOINTS[p].table

\* Concentrations probed for pollutant p, in its canonical unit: ProbesPerTier+1
\* evenly spaced points of every tier (its two ends included), the midpoint of
\* the gap between consecutive tiers, a negative value, a value just above the
\* last tier, and infinity.
TierProbes(p) ==
    { FAdd(Table(p)[i].bp_low,
           FMul(FSub(Table(p)[i].bp_high, Table(p)[i].bp_low), Rat(j, ProbesPerTier))) :
        i \in DOMAIN Table(p), j \in 0..ProbesPerTier }

GapProbes(p) ==
    { FDiv(FAdd(Table(p)[i].bp_high, Table(p)[i + 1].bp_low), Int2Rat(2)) :
        i \in 1..(Len(Table(p)) - 1) }

OutsideProbes(p) ==
    { Rat(-1, 10), FAdd(Table(p)[Len(Table(p))].bp_high, Rat(1, 10)), Inf }

Probes(p) == TierProbes(p) \cup GapProbes(p) \cup OutsideProbes(p)

OZONE == <<"o","z","o","n","e">>
PM25_DOTTED == <<"P","M","2",".","5">>

\* Unit texts as sensors and clients write them.
RawUnits ==
    { UG_M3, MG_M3, PPM, PPB,
      Str(<<" ", MICRO, "g", "/", "m", CUBED, " ">>),
      Str(<<"U","G","/","M","^","3">>),
      Str(<<"u","g","/","m", CUBED>>),
      Str(<<"M","g","/","m", CUBED>>),
      Str(<<"P","P","B"," ">>),
      Str(<<"\t","p","p","M">>),
      Str(<<"U+03BC","g","/","m","3">>),
      Str(<<"p","p","t">>),
      Str(<<"%">>),
      Str(<<>>),
      None }

ConvertCalls ==
    [op : {"convert_to_standard"},
     pollutant : Pollutants \cup {OZONE, PM25_DOTTED},
     value : {None, NaN, Inf, Rat(5, 2), Rat(-3, 1), Int2Rat(0)},
     unit : RawUnits]

IaqiCalls ==
    UNION { [op : {"compute_iaqi"}, pollutant : {p},
             concentration : Probes(p) \cup {None, NaN}, unit : {None}] : p \in Pollutants }
    \cup
    [op : {"compute_iaqi"}, pollutant : Pollutants \cup {OZONE},
     concentration : {Int2Rat(70), Rat(1, 20)}, unit : {UG_M3, MG_M3, PPM, PPB, Str(<<"p","p","t">>)}]

\* Two calls of compute_iaqi for the same pollutant, both in its canonical unit.
IaqiPairs ==
    UNION { { <<[op |-> "compute_iaqi", pollutant |-> p, concentration |-> c1, unit |-> None],
                [op |-> "compute_iaqi", pollutant |-> p, concentration |-> c2, unit |-> None]>> :
              c1 \in Probes(p), c2 \in Probes(p) } : p \in Pollutants }

\* Values a row holds for pollutant p: None, a value in the first tier, the top
\* of tier k (k differs per pollutant), and a value outside every tier.
RowChoices ==
    (PM25 :> {None, Rat(6, 1), Rat(354, 10), Rat(-1, 10)}) @@
    (PM10 :> {None, Rat(27, 1), Rat(254, 1), Rat(6045, 10)}) @@
    (O3 :> {None, Rat(27, 1000), Rat(105, 1000)}) @@
    (CO :> {None, Rat(22, 10), Rat(504, 10)}) @@
    (SO2 :> {None, Rat(35, 2), Rat(3555, 100)}) @@
    (NO2 :> {None, NaN, Rat(100, 1)})

\* Every dict over a subset of the keys BreakpointKeys[i..] with values from
\* RowChoices.
RECURSIVE DictsFrom(_)
DictsFrom(i) ==
    IF i > Len(BreakpointKeys) THEN {<<>>}
    ELSE LET rest == DictsFrom(i + 1)
             p == BreakpointKeys[i]
         IN  rest \cup { (p :> v) @@ r : v \in RowChoices[p], r \in rest }

RowDicts == DictsFrom(1)

AqiRowCalls ==
    [op : {"compute_aqi_row"}, row_values : RowDicts, units : {None}]
    \cup
    [op : {"compute_aqi_row"},
     row_values : { (O3 :> Int2Rat(70)) @@ (PM25 :> Rat(6, 1)),
                    (O3 :> Int2Rat(70)) @@ (OZONE :> Int2Rat(900)) },
     units : { Dict((O3 :> PPB)), Dict((O3 :> PPB) @@ (PM25 :> PPM)), Dict(<<>>) }]

ExactAqiCalls ==
    [op : {"compute_exact_aqi"},
     standardized : { rv \in RowDicts : DOMAIN rv = Pollutants }]

AqiSessions ==
    { <<c>> : c \in ConvertCalls \cup IaqiCalls \cup AqiRowCalls \cup ExactAqiCalls }
    \cup IaqiPairs

NoFrame == [kind |-> "None"]

InitAqi ==
    /\ pending \in AqiSessions
    /\ log = <<>>
    /\ frame = NoFrame /\ status = "idle" /\ prev = NoFrame /\ cleans = 0

Serve(ret) ==
    /\ log' = Append(log, [call |-> Head(pending), ret |-> ret])
    /\ pending' = Tail(pending)
    /\ UNCHANGED <<frame, status, prev, cleans>>

CallConvertToStandard ==
    /\ pending # <<>> /\ Head(pending).op = "convert_to_standard"
    /\ LET c == Head(pending) IN Serve(convert_to_standard(c.pollutant, c.value, c.unit))

CallComputeIaqi ==
    /\ pending # <<>> /\ Head(pending).op = "compute_iaqi"
    /\ LET c == Head(pending) IN Serve(compute_iaqi(c.pollutant, c.concentration, c.unit))

CallComputeAqiRow ==
    /\ pending # <<>> /\ Head(pending).op = "compute_aqi_row"
    /\ LET c == Head(pending) IN Serve(compute_aqi_row(c.row_values, c.units))

CallComputeExactAqi ==
    /\ pending # <<>> /\ Head(pending).op = "compute_exact_aqi"
    /\ LET c == Head(pending) IN Serve(compute_exact_aqi(c.standardized))

NextAqi ==
    \/ CallConvertToStandard
    \/ CallComputeIaqi
    \/ CallComputeAqiRow
    \/ CallComputeExactAqi

SpecAqi == InitAqi /\ [][NextAqi]_vars


(***************************************************************************)
(* Claims about the AQI functions (checked under SpecAqi)                  *)
(***************************************************************************)
Entries(op) == { i \in DOMAIN log : log[i].call.op = op }

\* The sub-indices that are defined for the pollutants present in a dict.
DefinedSubIndices(row_values, units) ==
    { compute_iaqi(p, row_values[p], UnitFor(units, p)) :
        p \in DOMAIN row_values \cap Pollutants } \ {None}

IsMaxOf(x, S) == IF S = {} THEN x = None ELSE x \in S /\ \A y \in S : FLe(y, x)

\* C1: compute_aqi_row returns the maximum of the sub-indices defined for the
\* pollutants present in its input, and None when there is none (every
\* pollutant absent included); compute_exact_aqi returns that value with a
\* category, and (None, None) when there is none.
C1_AqiIsMaxOfDefinedSubIndices ==
    /\ \A i \in Entries("compute_aqi_row") :
          IsMaxOf(log[i].ret, DefinedSubIndices(log[i].call.row_values, log[i].call.units))
    /\ \A i \in Entries("compute_exact_aqi") :
          /\ IsMaxOf(log[i].ret[1], DefinedSubIndices(log[i].call.standardized, None))
          /\ (log[i].ret[1] = None) <=> (log[i].ret[2] = None)

\* A row in which two pollutants have different defined sub-indices, the
\* later key holding the larger one, has been aggregated.
C1_Witness ==
    \E i \in Entries("compute_aqi_row") :
        /\ log[i].call.units = None
        /\ {PM25, PM10} \subseteq DOMAIN log[i].call.row_values
        /\ compute_iaqi(PM25, log[i].call.row_values[PM25], None) = Int2Rat(25)
        /\ compute_iaqi(PM10, log[i].call.row_values[PM10], None) = Int2Rat(150)
        /\ log[i].ret = Int2Rat(150)

InTier(p, c, k) == FLe(Table(p)[k].bp_low, c) /\ FLe(c, Table(p)[k].bp_high)

TiersContaining(p, c) == { k \in DOMAIN Table(p) : InTier(p, c, k) }

FirstTier(p, c) == CHOOSE k \in TiersContaining(p, c) : \A j \in TiersContaining(p, c) : k <= j

\* Calls of compute_iaqi for a pollutant of the table with a standardized
\* concentration (a number, no unit given).
StandardizedCalls ==
    { i \in Entries("compute_iaqi") :
        /\ log[i].call.pollutant \in Pollutants
        /\ log[i].call.unit = None
        /\ IsNumber(log[i].call.concentration) }

BetweenTiers(p, c) ==
    \E k \in 1..(Len(Table(p)) - 1) :
        FLt(Table(p)[k].bp_high, c) /\ FLt(c, Table(p)[k + 1].bp_low)

\* C3: compute_iaqi is defined exactly when the standardized concentration
\* lies in the closed interval of some tier, and is then the interpolation in
\* the first such tier; a negative concentration, one above the last tier and
\* one between two consecutive tiers give None.
C3_DefinedExactlyInsideATier ==
    \A i \in StandardizedCalls :
        LET p == log[i].call.pollutant
            c == log[i].call.concentration
        IN  /\ (log[i].ret # None) <=> (TiersContaining(p, c) # {})
            /\ TiersContaining(p, c) # {} =>
                  log[i].ret = Interpolate(Table(p)[FirstTier(p, c)], c)
            /\ FLt(c, Int2Rat(0)) => log[i].ret = None
            /\ FLt(Table(p)[Len(Table(p))].bp_high, c) => log[i].ret = None
            /\ BetweenTiers(p, c) => log[i].ret = None

\* pm25 = 500.5 was answered None and a value at the upper end of a tier was
\* answered with a number in the same session.
C3_Witness ==
    /\ Len(log) = 2
    /\ log[1].call = [op |-> "compute_iaqi", pollutant |-> PM25,
                      concentration |-> Rat(5005, 10), unit |-> None]
    /\ log[1].ret = None
    /\ log[2].call.concentration = Rat(120, 10)
    /\ log[2].ret = Int2Rat(50)

\* C4: inside one tier compute_iaqi is non-decreasing in the concentration; at
\* bp_high of a tier it is exactly i_high, at bp_low exactly i_low;
\* pm25 = 35.4 gives 100 (Moderate) and pm25 = 12.1 gives 51.
C4_MonotoneAndExactAtTierEnds ==
    /\ \A i \in StandardizedCalls, j \in StandardizedCalls :
          LET p == log[i].call.pollutant
              c1 == log[i].call.concentration
              c2 == log[j].call.concentration
          IN  (/\ log[j].call.pollutant = p
               /\ FLe(c1, c2)
               /\ \E k \in DOMAIN Table(p) : InTier(p, c1, k) /\ InTier(p, c2, k))
              => FLe(log[i].ret, log[j].ret)
    /\ \A i \in StandardizedCalls :
          LET p == log[i].call.pollutant
              c == log[i].call.concentration
          IN  \A k \in DOMAIN Table(p) :
                /\ c = Table(p)[k].bp_high => log[i].ret = Int2Rat(Table(p)[k].i_high)
                /\ c = Table(p)[k].bp_low => log[i].ret = Int2Rat(Table(p)[k].i_low)
    /\ \A i \in StandardizedCalls :
          /\ (log[i].call.pollutant = PM25 /\ log[i].call.concentration = Rat(354, 10))
                => log[i].ret = Int2Rat(100) /\ aqi_category(log[i].ret) = Moderate
          /\ (log[i].call.pollutant = PM25 /\ log[i].call.concentration = Rat(121, 10))
                => log[i].ret = Int2Rat(51)

\* Two calls inside pm25's second tier, its lower end then its upper end:
\* 12.1 gave 51 and 35.4 gave 100.
C4_Witness ==
    /\ Len(log) = 2
    /\ log[1].call.pollutant = PM25 /\ log[2].call.pollutant = PM25
    /\ log[1].call.concentration = Rat(121, 10) /\ log[1].ret = Int2Rat(51)
    /\ log[2].call.concentration = Rat(354, 10) /\ log[2].ret = Int2Rat(100)

\* The canonical unit of each pollutant and the units convert accepts.
CanonicalUnit ==
    (PM25 :> UG_M3) @@ (PM10 :> UG_M3) @@ (O3 :> PPM) @@ (CO :> PPM) @@
    (SO2 :> PPB) @@ (NO2 :> PPB)

AcceptedUnits(p) ==
    IF p \in {PM25, PM10} THEN {UG_M3, MG_M3} ELSE {PPM, PPB, UG_M3, MG_M3}

FailsSoft(c) ==
    \/ c.value \in {None, NaN}
    \/ c.pollutant \notin {PM25, PM10, NO2, O3, CO, SO2}
    \/ normalize_unit_aqi(c.unit) \notin AcceptedUnits(c.pollutant)

\* C5: convert_to_standard returns (None, None) for an absent or NaN value, a
\* pollutant that is not one of the six codes and a normalized unit that is
\* not accepted for the pollutant; for every other input it returns a number
\* tagged with the pollutant's canonical unit, and the value itself when the
\* normalized unit is the canonical unit.  It returns in every case.
C5_ConvertFailsSoft ==
    \A i \in Entries("convert_to_standard") :
        LET c == log[i].call
            r == log[i].ret
        IN  /\ FailsSoft(c) => r = <<None, None>>
            /\ ~FailsSoft(c) =>
                  /\ IsNumber(r[1])
                  /\ r[2] = CanonicalUnit[c.pollutant]
                  /\ normalize_unit_aqi(c.unit) = CanonicalUnit[c.pollutant] => r[1] = c.value

\* A gas reading in " <micro>g/m<cubed> " was converted to a number of ppb.
C5_Witness ==
    \E i \in Entries("convert_to_standard") :
        /\ log[i].call.pollutant = NO2
        /\ log[i].call.unit = Str(<<" ", MICRO, "g", "/", "m", CUBED, " ">>)
        /\ log[i].call.value = Rat(5, 2)
        /\ log[i].ret = <<Rat(12225, 9202), PPB>>


(***************************************************************************)
(* Requests to /predict                                                    *)
(***************************************************************************)
PPT == Str(<<"p","p","t">>)
MICRO_G_M3 == Str(<<MICRO, "g", "/", "m", CUBED>>)

Reading(value, unit) == [value |-> value, unit |-> unit]

\* What a request may carry for each pollutant: nothing, a value without a
\* unit, a value with a convertible unit, a value with a unit that cannot be
\* converted, a value outside every tier.
RequestChoices ==
    (PM25 :> { Reading(None, None), Reading(Rat(354, 10), None),
               Reading(Rat(354, 10000), MG_M3), Reading(Rat(354, 10), PPT),
               Reading(Rat(-1, 10), None) }) @@
    (PM10 :> { Reading(None, None), Reading(Int2Rat(27), None),
               Reading(Int2Rat(700), MICRO_G_M3) }) @@
    (NO2 :> { Reading(None, None), Reading(Int2Rat(100), None),
              Reading(Int2Rat(100), MICRO_G_M3), Reading(Int2Rat(100), Str(<<>>)),
              Reading(Int2Rat(100), PPT) }) @@
    (O3 :> { Reading(None, None), Reading(Rat(7, 100), None), Reading(Int2Rat(70), PPB) }) @@
    (CO :> { Reading(None, None), Reading(Rat(22, 10), None), Reading(Int2Rat(60), None) }) @@
    (SO2 :> { Reading(None, None), Reading(Rat(3555, 100), None),
              Reading(Int2Rat(20), None), Reading(Int2Rat(20), PPT) })

\* Every assignment of one choice to each pollutant INPUT_POLLUTANTS[i..].
RECURSIVE ReadingsFrom(_)
ReadingsFrom(i) ==
    IF i > Len(INPUT_POLLUTANTS) THEN {<<>>}
    ELSE { (INPUT_POLLUTANTS[i] :> r) @@ rest :
             r \in RequestChoices[INPUT_POLLUTANTS[i]], rest \in ReadingsFrom(i + 1) }

\* PredictRequest: pollutants holds the six fields; units is None when no
\* reading carries a unit, and the six unit fields otherwise.
RequestOf(readings) ==
    [pollutants |-> [p \in DOMAIN readings |-> readings[p].value],
     units |-> IF \A p \in DOMAIN readings : readings[p].unit = None THEN None
               ELSE Dict([p \in DOMAIN readings |-> readings[p].unit])]

Requests == { RequestOf(readings) : readings \in ReadingsFrom(1) }

\* The artifacts on disk and what the external model answers when asked.
Deployments ==
    { [artifacts |-> [model |-> TRUE, feature_cols |-> TRUE], model_out |-> Int2Rat(42)],
      [artifacts |-> [model |-> TRUE, feature_cols |-> TRUE], model_out |-> Int2Rat(180)],
      [artifacts |-> [model |-> FALSE, feature_cols |-> TRUE], model_out |-> None],
      [artifacts |-> [model |-> FALSE, feature_cols |-> FALSE], model_out |-> None] }

PredictCalls ==
    { [op |-> "predict", request |-> r, artifacts |-> d.artifacts, model_out |-> d.model_out] :
        r \in Requests, d \in Deployments }

InitApi ==
    /\ pending \in { <<c>> : c \in PredictCalls }
    /\ log = <<>>
    /\ frame = NoFrame /\ status = "idle" /\ prev = NoFrame /\ cleans = 0

CallPredict ==
    /\ pending # <<>> /\ Head(pending).op = "predict"
    /\ Serve(predict(Head(pending).request, Head(pending).artifacts, Head(pending).model_out))

NextApi == CallPredict

SpecApi == InitApi /\ [][NextApi]_vars

(***************************************************************************)
(* Claims about the API boundary (checked under SpecApi)                   *)
(***************************************************************************)
Answered == { i \in Entries("predict") : log[i].ret.http = 200 }

UnitOf(request, p) == IF request.units = None THEN None ELSE request.units.d[p]

\* Pollutant p is present in the request and convertible to its canonical unit.
PresentAndConvertible(request, p) ==
    /\ request.pollutants[p] \notin {None, NaN}
    /\ Truthy(UnitOf(request, p)) =>
          normalize_unit_aqi(UnitOf(request, p)) \in AcceptedUnits(p)

AllPresentAndConvertible(request) ==
    \A p \in {PM25, PM10, NO2, O3, CO, SO2} : PresentAndConvertible(request, p)

\* The response reports the exact AQI as its prediction.
UsesExact(r) == ~r.used_model /\ r.aqi_pred # None /\ r.aqi_pred = r.aqi_exact

\* The response reports what the caller's fallback gives: the model's answer,
\* or nothing when no model is loaded.
FallsBack(c, r) ==
    /\ r.used_model = c.artifacts.model
    /\ r.aqi_pred = IF c.artifacts.model THEN c.model_out ELSE None

COL_COUNTRY == <<"c","o","u","n","t","r","y">>
COL_CITY == <<"c","i","t","y">>
COL_LOCATION == <<"l","o","c","a","t","i","o","n">>
COL_COORDINATES == <<"c","o","o","r","d","i","n","a","t","e","s">>
COL_POLLUTANT == <<"p","o","l","l","u","t","a","n","t">>
COL_VALUE == <<"v","a","l","u","e">>
COL_UNIT == <<"u","n","i","t">>
COL_SOURCE_NAME == <<"s","o","u","r","c","e","_","n","a","m","e">>
COL_SOURCE == <<"s","o","u","r","c","e">>
COL_LAST_UPDATED == <<"l","a","s","t","_","u","p","d","a","t","e","d">>
COL_LAST_UPDATED_UTC == <<"l","a","s","t","_","u","p","d","a","t","e","d","_","u","t","c">>
COL_DATETIME == <<"d","a","t","e","t","i","m","e">>
COL_TIMESTAMP == <<"t","i","m","e","s","t","a","m","p">>
COL_LATITUDE == <<"l","a","t","i","t","u","d","e">>
COL_LONGITUDE == <<"l","o","n","g","i","t","u","d","e">>
COL_VALUE_STD == <<"v","a","l","u","e","_","s","t","d">>
COL_UNIT_STD == <<"u","n","i","t","_","s","t","d">>

POLLUTANTS == {PM25, PM10, NO2, O3, CO, SO2}

List(items) == [kind |-> "list", items |-> items]

\* The text of a date and time: wall-clock hour `local` at UTC offset `offset`.
DateText(local, offset) == [kind |-> "datetext", local |-> local, offset |-> offset]

Timestamp(t) == [kind |-> "timestamp", t |-> t]
NaT == [kind |-> "nat"]

Range(seq) == { seq[i] : i \in DOMAIN seq }

\* _normalize_col_name(name)
normalize_col_name(name) ==
    Replace(Replace(Lower(Strip(name)), <<" ">>, <<"_">>), <<"-">>, <<"_">>)

\* The name standardize_columns maps a normalized column name to, or <<>> when
\* it maps it to nothing (rename_map has no entry).
RenameTarget(norm) ==
    IF norm \in {COL_COUNTRY, COL_CITY, COL_LOCATION, COL_COORDINATES, COL_POLLUTANT, COL_VALUE}
    THEN norm
    ELSE IF norm = COL_UNIT THEN COL_UNIT
    ELSE IF norm \in {COL_SOURCE_NAME, COL_SOURCE} THEN COL_SOURCE_NAME
    ELSE IF norm \in {COL_LAST_UPDATED, COL_LAST_UPDATED_UTC, COL_DATETIME} THEN COL_LAST_UPDATED
    ELSE <<>>

\* The normalized names of the columns from i on.
RECURSIVE NormalizedNames(_, _)
NormalizedNames(columns, i) ==
    IF i > Len(columns) THEN <<>>
    ELSE <<normalize_col_name(columns[i])>> \o NormalizedNames(columns, i + 1)

\* The dict `normalized` keeps, for each normalized name, the last column that
\* has it: only that column is renamed.
IsLastWithItsName(names, i) == \A j \in DOMAIN names : j > i => names[j] # names[i]

Renamed(columns, names, i) ==
    IF IsLastWithItsName(names, i) /\ RenameTarget(names[i]) # <<>>
    THEN RenameTarget(names[i])
    ELSE columns[i]

RECURSIVE RenamedFrom(_, _, _)
RenamedFrom(columns, names, i) ==
    IF i > Len(columns) THEN <<>>
    ELSE <<Renamed(columns, names, i)>> \o RenamedFrom(columns, names, i + 1)

\* The column names after df.rename(columns=rename_map).
RenamedColumns(columns) == RenamedFrom(columns, NormalizedNames(columns, 1), 1)

\* The row under the new names, from column i on.
RECURSIVE RenamedRow(_, _, _, _)
RenamedRow(columns, renamed, row, i) ==
    IF i > Len(columns) THEN <<>>
    ELSE (renamed[i] :> row[columns[i]]) @@ RenamedRow(columns, renamed, row, i + 1)

RenamedFrame(df, renamed) ==
    [columns |-> renamed,
     rows |-> [i \in DOMAIN df.rows |-> RenamedRow(df.columns, renamed, df.rows[i], 1)]]

\* standardize_columns(df)
standardize_columns(df) == RenamedFrame(df, RenamedColumns(df.columns))

\* str(x) for the cells that are not a str: NaN prints as "nan".
PyStr(x) == IF x.kind = "str" THEN x.s ELSE <<"n","a","n">>

\* "pm2.5" and "pm25"
PM25_COMPACT == <<"p","m","2",".","5">>

Compact(text) == Replace(Replace(Replace(text, <<" ">>, <<>>), <<"_">>, <<>>), <<"-">>, <<>>)

FoldPm25(compact) == IF compact = PM25_COMPACT \/ compact = PM25 THEN PM25 ELSE compact

\* normalize_pollutant_name(p)
normalize_pollutant_name(p) ==
    IF p = None THEN <<>> ELSE FoldPm25(Compact(Lower(Strip(PyStr(p)))))

\* preprocessing.normalize_unit(unit)
normalize_unit(unit) ==
    IF unit = None THEN None
    ELSE Str(Replace(Replace(Replace(Replace(Lower(Strip(PyStr(unit))),
                 <<MICRO>>, <<"u">>),
                 <<"u","g","/","m","^","3">>, UG_M3.s),
                 <<"u","g","/","m",CUBED>>, UG_M3.s),
                 <<"m","g","/","m",CUBED>>, MG_M3.s))


(***************************************************************************)
(* Numbers in text: the regular expression of parse_coordinates,           *)
(* -?\d+\.\d+|-?\d+ , and float() / pd.to_numeric of a decimal numeral     *)
(***************************************************************************)
Digits == <<"0","1","2","3","4","5","6","7","8","9">>

IsDigit(c) == c \in Range(Digits)

DigitValue(c) == (CHOOSE d \in DOMAIN Digits : Digits[d] = c) - 1

\* The length of the run of digits of s that starts at position i.
RECURSIVE DigitRun(_, _)
DigitRun(s, i) == IF i <= Len(s) /\ IsDigit(s[i]) THEN 1 + DigitRun(s, i + 1) ELSE 0

\* The length of the match of \d+\.\d+|\d+ at position j (0: no match), n
\* being the length of the run of digits at j.
UnsignedMatch(s, j, n) ==
    IF n = 0 THEN 0
    ELSE IF j + n <= Len(s) /\ s[j + n] = "." /\ DigitRun(s, j + n + 1) > 0
         THEN n + 1 + DigitRun(s, j + n + 1)
         ELSE n

SignLength(s, i) == IF i <= Len(s) /\ s[i] = "-" THEN 1 ELSE 0

SignedMatch(sign, unsigned) == IF unsigned = 0 THEN 0 ELSE sign + unsigned

MatchAfterSign(s, i, sign) ==
    SignedMatch(sign, UnsignedMatch(s, i + sign, DigitRun(s, i + sign)))

\* The length of the match of the whole expression at position i (0: none).
MatchAt(s, i) == MatchAfterSign(s, i, SignLength(s, i))

\* re.findall(r"-?\d+\.\d+|-?\d+", s) from position i on, m being the length
\* of the match at i: the scan goes on behind a match, or one character on.
RECURSIVE FindNumbersFrom(_, _, _)
FindNumbersFrom(s, i, m) ==
    IF i > Len(s) THEN <<>>
    ELSE IF m = 0 THEN FindNumbersFrom(s, i + 1, MatchAt(s, i + 1))
    ELSE <<SubSeq(s, i, i + m - 1)>> \o FindNumbersFrom(s, i + m, MatchAt(s, i + m))

FindNumbers(s, i) == FindNumbersFrom(s, i, MatchAt(s, i))

\* The number the digits s[i..j] spell, and 10 ^ k.
RECURSIVE DigitsValue(_, _, _)
DigitsValue(s, i, j) ==
    IF j < i THEN 0 ELSE 10 * DigitsValue(s, i, j - 1) + DigitValue(s[j])

RECURSIVE Pow10(_)
Pow10(k) == IF k = 0 THEN 1 ELSE 10 * Pow10(k - 1)

\* The value of an unsigned numeral with n digits before the point.
UnsignedValue(s, n) ==
    IF n = Len(s) THEN Int2Rat(DigitsValue(s, 1, n))
    ELSE FAdd(Int2Rat(DigitsValue(s, 1, n)),
              Rat(DigitsValue(s, n + 2, Len(s)), Pow10(Len(s) - n - 1)))

\* float(numeral) for a numeral the regular expression matches.
NumeralValue(s) ==
    IF s[1] = "-" THEN FSub(Int2Rat(0), UnsignedValue(Tail(s), DigitRun(Tail(s), 1)))
    ELSE UnsignedValue(s, DigitRun(s, 1))

IsNumeral(s) == s # <<>> /\ MatchAt(s, 1) = Len(s)

INF_TEXT == <<"i","n","f">>

\* What float(text) and pd.to_numeric make of the text of a cell: the value
\* of a decimal numeral, infinity for "inf", NaN for anything else (float()
\* raises ValueError there, to_numeric(errors="coerce") gives NaN).
TextToFloat(s) ==
    IF IsNumeral(Strip(s)) THEN NumeralValue(Strip(s))
    ELSE IF Lower(Strip(s)) = INF_TEXT THEN Inf
    ELSE NaN

\* pd.to_numeric(cell, errors="coerce")
to_numeric(cell) ==
    IF cell.kind \in {"num", "inf"} THEN cell
    ELSE IF cell.kind = "str" THEN TextToFloat(cell.s)
    ELSE NaN

\* pd.to_datetime(cell, errors="coerce", utc=True) followed by
\* .dt.tz_convert(None): the UTC instant, without its time zone.
to_datetime_utc(cell) ==
    IF cell.kind = "datetext" THEN Timestamp(cell.local - cell.offset) ELSE NaT

Raised(error) == [kind |-> "raise", error |-> error]
LatLon(lat, lon) == [kind |-> "latlon", lat |-> lat, lon |-> lon]

\* float(x) for an item of a list of coordinates: raises TypeError for None,
\* ValueError for text that is no number.
FloatOfItem(x) ==
    IF x.kind \in {"num", "inf", "nan"} THEN x
    ELSE IF x.kind = "str" /\ TextToFloat(x.s) # NaN THEN TextToFloat(x.s)
    ELSE IF x.kind = "str" /\ Lower(Strip(x.s)) = <<"n","a","n">> THEN NaN
    ELSE IF x.kind = "str" THEN Raised("ValueError")
    ELSE Raised("TypeError")

PairOfFloats(a, b) ==
    IF a.kind = "raise" THEN a
    ELSE IF b.kind = "raise" THEN b
    ELSE LatLon(a, b)

FirstTwo(numbers) ==
    IF Len(numbers) >= 2 THEN LatLon(NumeralValue(numbers[1]), NumeralValue(numbers[2]))
    ELSE LatLon(None, None)

\* parse_coordinates(value)
parse_coordinates(value) ==
    IF value = None \/ value = NaN THEN LatLon(None, None)
    ELSE IF value.kind = "list" /\ Len(value.items) >= 2
         THEN PairOfFloats(FloatOfItem(value.items[1]), FloatOfItem(value.items[2]))
    ELSE IF value.kind = "str" THEN FirstTwo(FindNumbers(value.s, 1))
    ELSE LatLon(None, None)


(***************************************************************************)
(* clean_raw_data.  A DataFrame is its list of column names and its list  *)
(* of rows, a row being a function from column name to cell.  The call    *)
(* ends with a status ("ok" or the exception raised) and the frame its    *)
(* local variable df holds at that point.                                 *)
(***************************************************************************)
Frame(columns, rows) == [columns |-> columns, rows |-> rows]

Ended(how, df) == [status |-> how, df |-> df]

HasColumn(df, col) == col \in Range(df.columns)

\* df[col] = ... : the column is added at the end when it is new.
WithColumn(columns, col) == IF col \in Range(columns) THEN columns ELSE Append(columns, col)

Assign(row, col, cell) == (col :> cell) @@ row

\* Line 90: df["pollutant"] = df["pollutant"].apply(normalize_pollutant_name)
NormalizedPollutantRow(row) ==
    Assign(row, COL_POLLUTANT, Str(normalize_pollutant_name(row[COL_POLLUTANT])))

InPollutants(row) == row[COL_POLLUTANT].s \in POLLUTANTS

\* Lines 90-91: the rows whose normalized pollutant is one of POLLUTANTS.
FilterPollutants(df) ==
    Frame(df.columns,
          SelectSeq([i \in DOMAIN df.rows |-> NormalizedPollutantRow(df.rows[i])],
                    InPollutants))

\* Line 92: raw_pollutants.apply(normalize_pollutant_name).eq("pm25").any()
raw_has_pm25(df) ==
    \E i \in DOMAIN df.rows : normalize_pollutant_name(df.rows[i][COL_POLLUTANT]) = PM25

ParsedColumns(columns) ==
    WithColumn(WithColumn(WithColumn(columns, COL_TIMESTAMP), COL_LATITUDE), COL_LONGITUDE)

\* Lines 94-102 for one row.
RowWithLatLon(row, lat_lon) ==
    (COL_LATITUDE :> lat_lon.lat) @@ (COL_LONGITUDE :> lat_lon.lon) @@ row

ParsedRow(row) ==
    (COL_UNIT :> normalize_unit(row[COL_UNIT]))
    @@ (COL_VALUE :> to_numeric(row[COL_VALUE]))
    @@ (COL_TIMESTAMP :> to_datetime_utc(row[COL_LAST_UPDATED]))
    @@ RowWithLatLon(row, parse_coordinates(row[COL_COORDINATES]))

\* Lines 104-110 for one row.
ExpandedRow(row, converted) ==
    (COL_VALUE_STD :> converted[1]) @@ (COL_UNIT_STD :> converted[2]) @@ row

ConvertedRow(row) ==
    ExpandedRow(row, convert_to_standard(row[COL_POLLUTANT].s, row[COL_VALUE], row[COL_UNIT]))

\* Lines 94-110 on a frame none of whose steps raises.
Converted(df) ==
    Frame(WithColumn(WithColumn(ParsedColumns(df.columns), COL_VALUE_STD), COL_UNIT_STD),
          [i \in DOMAIN df.rows |-> ConvertedRow(ParsedRow(df.rows[i]))])

IsNA(cell) == cell = None \/ cell = NaN \/ cell = NaT

NotNA(row) == ~IsNA(row[COL_TIMESTAMP]) /\ ~IsNA(row[COL_VALUE_STD])

\* Line 112: df.dropna(subset=["timestamp", "value_std"])
dropna(df) == Frame(df.columns, SelectSeq(df.rows, NotNA))

\* A missing value in a key of drop_duplicates: None and NaN are one value.
KeyCell(cell) == IF cell = None THEN NaN ELSE cell

\* Mutant of DuplicateKey: value_std left out of the subset.
DuplicateKeyWithoutValue(row) ==
    <<KeyCell(row[COL_TIMESTAMP]), KeyCell(row[COL_LOCATION]), KeyCell(row[COL_POLLUTANT]),
      KeyCell(row[COL_LATITUDE]), KeyCell(row[COL_LONGITUDE])>>

\* Lines 115-122: the subset of drop_duplicates.
DuplicateKey(row) ==
    <<KeyCell(row[COL_TIMESTAMP]), KeyCell(row[COL_LOCATION]), KeyCell(row[COL_POLLUTANT]),
      KeyCell(row[COL_VALUE_STD]), KeyCell(row[COL_LATITUDE]), KeyCell(row[COL_LONGITUDE])>>

\* The rows from i on that no earlier row duplicates (keep="first").
RECURSIVE FirstOccurrences(_, _)
FirstOccurrences(rows, i) ==
    IF i > Len(rows) THEN <<>>
    ELSE IF \E j \in 1..(i - 1) : DuplicateKey(rows[j]) = DuplicateKey(rows[i])
         THEN FirstOccurrences(rows, i + 1)
         ELSE <<rows[i]>> \o FirstOccurrences(rows, i + 1)

\* Lines 114-123: df.drop_duplicates(subset=[...])
drop_duplicates(df) == Frame(df.columns, FirstOccurrences(df.rows, 1))

keep_cols ==
    <<COL_COUNTRY, COL_CITY, COL_LOCATION, COL_LATITUDE, COL_LONGITUDE, COL_TIMESTAMP,
      COL_POLLUTANT, COL_VALUE_STD, COL_UNIT_STD, COL_SOURCE_NAME>>

\* Lines 125-138: df[[c for c in keep_cols if c in df.columns]]
KeepColumns(df) ==
    Frame(SelectSeq(keep_cols, LAMBDA c : c \in Range(df.columns)),
          [i \in DOMAIN df.rows |->
              [c \in Range(keep_cols) \cap DOMAIN df.rows[i] |-> df.rows[i][c]]])

HasPm25Row(df) == \E i \in DOMAIN df.rows : df.rows[i][COL_POLLUTANT] = Str(PM25)

\* Lines 142-144: the assertion and the return.
CheckPm25(df, had_pm25) ==
    IF had_pm25 /\ ~HasPm25Row(df) THEN Ended("AssertionError", df) ELSE Ended("ok", df)

\* Lines 112-144.
CleanConverted(df, had_pm25) ==
    IF ~HasColumn(df, COL_LOCATION) THEN Ended("KeyError", dropna(df))
    ELSE CheckPm25(KeepColumns(drop_duplicates(dropna(df))), had_pm25)

CoordinatesRaise(row) == parse_coordinates(row[COL_COORDINATES]).kind = "raise"

\* The exception of the first row whose coordinates parse_coordinates rejects.
FirstCoordinatesError(df) ==
    parse_coordinates(
        df.rows[CHOOSE i \in DOMAIN df.rows :
                   /\ CoordinatesRaise(df.rows[i])
                   /\ \A j \in 1..(i - 1) : ~CoordinatesRaise(df.rows[j])][COL_COORDINATES]).error

\* Lines 94-144 on the filtered frame.  On a frame without rows,
\* df.apply(..., result_type="expand") returns a copy of the frame, and
\* line 109 gives its many columns two names: ValueError.
CleanFiltered(df, had_pm25) ==
    IF ~HasColumn(df, COL_UNIT) THEN Ended("KeyError", df)
    ELSE IF ~HasColumn(df, COL_VALUE) THEN Ended("KeyError", df)
    ELSE IF ~HasColumn(df, COL_LAST_UPDATED) THEN Ended("KeyError", df)
    ELSE IF ~HasColumn(df, COL_COORDINATES) THEN Ended("KeyError", df)
    ELSE IF \E i \in DOMAIN df.rows : CoordinatesRaise(df.rows[i])
         THEN Ended(FirstCoordinatesError(df), df)
    ELSE IF df.rows = <<>> THEN Ended("ValueError", df)
    ELSE CleanConverted(Converted(df), had_pm25)

\* Lines 89-144 on the frame with standardized column names.
CleanStandardized(df) ==
    IF ~HasColumn(df, COL_POLLUTANT) THEN Ended("KeyError", df)
    ELSE CleanFiltered(FilterPollutants(df), raw_has_pm25(df))

\* clean_raw_data(df)
clean_raw_data(df) == CleanStandardized(standardize_columns(df))


(***************************************************************************)
(* Cleaning sessions: a raw frame is cleaned, and its cleaned output may  *)
(* be cleaned again.  The raw frames are the batches of at most MaxBatch  *)
(* records, under the header of an export file, of records that differ    *)
(* from the scenario record (PM2.5, 35.4 µg/m³) in one field.             *)
(***************************************************************************)
MaxBatch == 2
MaxCleans == 2

RawRecord(pollutant, value, unit, last_updated, coordinates, location) ==
    [pollutant |-> pollutant, value |-> value, unit |-> unit,
     last_updated |-> last_updated, coordinates |-> coordinates, location |-> location]

TXT_PM2_5 == Str(<<"P","M","2",".","5">>)
TXT_35_4 == Str(<<"3","5",".","4">>)
TXT_UG_M3 == Str(<<MICRO,"g","/","m",CUBED>>)
TXT_COORDINATES == Str(<<"5","2",".","5",","," ","1","3",".","4">>)
TXT_SITE_A == Str(<<"A">>)
TXT_SITE_B == Str(<<"B">>)
AT_10_UTC == DateText(10, 0)

ScenarioRecord ==
    RawRecord(TXT_PM2_5, TXT_35_4, TXT_UG_M3, AT_10_UTC, TXT_COORDINATES, TXT_SITE_A)

PollutantTexts ==
    { Str(<<" ","P","M"," ","2",".","5">>), Str(<<"P","m","_","2","-","5">>),
      Str(<<"P","M","\t","2",".","5">>), Str(<<"o","z","o","n","e">>),
      Str(<<"P","M","1","0">>), Str(<<"N","O","2">>) }

ValueTexts ==
    { Rat(354, 10), Str(<<"n","/","a">>), Str(<<"i","n","f">>) }

UnitTexts ==
    { Str(<<"u","g","/","m","3">>), Str(<<"m","g","/","m",CUBED>>), Str(<<"p","p","m">>) }

DateTexts ==
    { DateText(12, 2), DateText(11, 0), Str(<<"s","o","o","n">>) }

CoordinateTexts ==
    { List(<<Rat(525, 10), Rat(134, 10)>>), Str(<<"l","a","t"," ","5","2">>),
      List(<<Str(<<"N">>), Str(<<"E">>)>>) }

RawRecords ==
    {ScenarioRecord}
    \cup { [ScenarioRecord EXCEPT !.pollutant = x] : x \in PollutantTexts }
    \cup { [ScenarioRecord EXCEPT !.value = x] : x \in ValueTexts }
    \cup { [ScenarioRecord EXCEPT !.unit = x] : x \in UnitTexts }
    \cup { [ScenarioRecord EXCEPT !.last_updated = x] : x \in DateTexts }
    \cup { [ScenarioRecord EXCEPT !.coordinates = x] : x \in CoordinateTexts }
    \cup { [ScenarioRecord EXCEPT !.location = TXT_SITE_B] }

\* The canonical names of the columns of a raw frame, and the names they have
\* in the header of an export file.
CanonicalHeader ==
    <<COL_COUNTRY, COL_CITY, COL_LOCATION, COL_COORDINATES, COL_POLLUTANT, COL_VALUE,
      COL_UNIT, COL_SOURCE_NAME, COL_LAST_UPDATED>>

ExportHeader ==
    <<<<"C","o","u","n","t","r","y">>, <<"C","i","t","y">>,
      <<"L","o","c","a","t","i","o","n">>,
      <<"C","o","o","r","d","i","n","a","t","e","s">>,
      <<"P","o","l","l","u","t","a","n","t">>, <<"V","a","l","u","e">>,
      <<"U","n","i","t">>, <<"S","o","u","r","c","e"," ","N","a","m","e">>,
      <<"L","a","s","t"," ","U","p","d","a","t","e","d">>>>

\* The cell of the k-th record r of a batch under the column whose canonical
\* name is col; the city column holds the name of the station, "S1", "S2", ...
RawCell(r, col, k) ==
    IF col = COL_POLLUTANT THEN r.pollutant
    ELSE IF col = COL_VALUE THEN r.value
    ELSE IF col = COL_UNIT THEN r.unit
    ELSE IF col = COL_LAST_UPDATED THEN r.last_updated
    ELSE IF col = COL_COORDINATES THEN r.coordinates
    ELSE IF col = COL_LOCATION THEN r.location
    ELSE IF col = COL_COUNTRY THEN Str(<<"D","E">>)
    ELSE IF col = COL_CITY THEN Str(<<"S", Digits[k + 1]>>)
    ELSE Str(<<"E","E","A">>)

\* The row of the k-th record r of a batch under the header, from column i on.
RECURSIVE RawRow(_, _, _, _)
RawRow(header, r, k, i) ==
    IF i > Len(header) THEN <<>>
    ELSE (header[i] :> RawCell(r, CanonicalHeader[i], k)) @@ RawRow(header, r, k, i + 1)

RawFrame(header, batch) ==
    Frame(header, [k \in DOMAIN batch |-> RawRow(header, batch[k], k, 1)])

Batches == UNION { [1..n -> RawRecords] : n \in 0..MaxBatch }

RawFrames == { RawFrame(ExportHeader, batch) : batch \in Batches }

InitClean ==
    /\ pending = <<>>
    /\ log = <<>>
    /\ frame \in RawFrames
    /\ status = "raw"
    /\ prev = NoFrame
    /\ cleans = 0

\* Both calls of clean_raw_data end with a status and the frame df then holds.
Cleaned(ended) ==
    /\ prev' = frame
    /\ frame' = ended.df
    /\ status' = ended.status
    /\ cleans' = cleans + 1
    /\ UNCHANGED <<pending, log>>

\* clean_raw_data(raw)
CleanRaw ==
    /\ status = "raw"
    /\ \E ended \in {clean_raw_data(frame)} : Cleaned(ended)

\* clean_raw_data(cleaned), on the frame a call has returned
CleanAgain ==
    /\ status = "ok"
    /\ cleans < MaxCleans
    /\ \E ended \in {clean_raw_data(frame)} : Cleaned(ended)

NextClean == CleanRaw \/ CleanAgain

SpecClean == InitClean /\ [][NextClean]_vars


(***************************************************************************)
(* Claims about clean_raw_data, on the states a first call has ended in:  *)
(* prev is the raw frame, frame the frame the call ended with.            *)
(***************************************************************************)
CleanedOnce == cleans = 1

Returned == CleanedOnce /\ status = "ok"

\* The raw rows under the canonical column names.
RawRows == standardize_columns(prev).rows

\* What the spec makes of the fields of a raw row.
PollutantOf(raw) == normalize_pollutant_name(raw[COL_POLLUTANT])
ValueOf(raw) == to_numeric(raw[COL_VALUE])
InstantOf(raw) == to_datetime_utc(raw[COL_LAST_UPDATED])
StandardOf(raw) == convert_to_standard(PollutantOf(raw), ValueOf(raw), raw[COL_UNIT])

Recognised(raw) == PollutantOf(raw) \in {PM25, PM10, NO2, O3, CO, SO2}
NumericValue(raw) == ValueOf(raw) # NaN
Convertible(raw) == StandardOf(raw) # NoConversion
Parsable(raw) == InstantOf(raw) # NaT

\* The output rows that come from a raw row: those of its station.
RowsOf(raw) == { i \in DOMAIN frame.rows : frame.rows[i][COL_CITY] = raw[COL_CITY] }

IsFinite(cell) == cell.kind = "num"

\* C6: every returned record has a pollutant of the enumerated set, a finite
\* value_std and a valid instant as timestamp; every raw record whose
\* normalized pollutant is outside the set, whose value is non-numeric or
\* unconvertible, or whose timestamp is unparsable is absent from the output.
C6_OutputIsValidAndInvalidIsAbsent ==
    Returned =>
        /\ \A i \in DOMAIN frame.rows :
              /\ frame.rows[i][COL_POLLUTANT].s \in {PM25, PM10, NO2, O3, CO, SO2}
              /\ IsFinite(frame.rows[i][COL_VALUE_STD])
              /\ frame.rows[i][COL_TIMESTAMP].kind = "timestamp"
        /\ \A raw \in Range(RawRows) :
              (~Recognised(raw) \/ ~NumericValue(raw) \/ ~Convertible(raw) \/ ~Parsable(raw))
              => RowsOf(raw) = {}


SixFields(row) ==
    <<row[COL_TIMESTAMP], row[COL_LOCATION], row[COL_POLLUTANT], row[COL_VALUE_STD],
      row[COL_LATITUDE], row[COL_LONGITUDE]>>

\* The rows that survive the filtering steps (lines 87-112), before the
\* duplicates are dropped.
Survivors == dropna(Converted(FilterPollutants(standardize_columns(prev)))).rows

WithSixFieldsOf(row) ==
    { i \in DOMAIN frame.rows : SixFields(frame.rows[i]) = SixFields(row) }

\* C7: no two returned records agree on all of timestamp, location, pollutant,
\* value_std, latitude and longitude; every record that survives the filtering
\* steps has exactly one returned record with its six fields, and every
\* returned record has the six fields of a survivor.
C7_OneRecordPerSixFields ==
    Returned =>
        \A survivors \in {Survivors} :
            /\ \A i, j \in DOMAIN frame.rows :
                  SixFields(frame.rows[i]) = SixFields(frame.rows[j]) => i = j
            /\ \A k \in DOMAIN survivors : Cardinality(WithSixFieldsOf(survivors[k])) = 1
            /\ \A i \in DOMAIN frame.rows :
                  \E k \in DOMAIN survivors : SixFields(survivors[k]) = SixFields(frame.rows[i])

\* A call has returned, and one of its records stands for two survivors of
\* the filtering.
C7_Witness ==
    /\ Returned
    /\ frame.rows # <<>>
    /\ \E survivors \in {Survivors} :
          \E k, l \in DOMAIN survivors :
              k # l /\ SixFields(survivors[k]) = SixFields(survivors[l])

CleanedTwice == cleans = 2

\* C8: cleaning the output of clean completes and yields the same record set.
C8_CleaningIsIdempotent ==
    CleanedTwice => status = "ok" /\ Range(frame.rows) = Range(prev.rows)

\* A raw record with nothing unrepresentable in it but, possibly, its
\* coordinates.
Representable(raw) ==
    Recognised(raw) /\ NumericValue(raw) /\ Convertible(raw) /\ Parsable(raw)

\* The output has a record of this raw record's station, pollutant,
\* standardized value and instant.
Represented(raw) ==
    \E i \in DOMAIN frame.rows :
        /\ frame.rows[i][COL_LOCATION] = raw[COL_LOCATION]
        /\ frame.rows[i][COL_POLLUTANT] = Str(PollutantOf(raw))
        /\ frame.rows[i][COL_VALUE_STD] = StandardOf(raw)[1]
        /\ frame.rows[i][COL_TIMESTAMP] = InstantOf(raw)

\* C9: a raw record with unrepresentable input never makes clean fail: for
\* every batch of records clean returns, and returns every record of the
\* batch that has a recognised pollutant, a convertible value and a parsable
\* timestamp.
C9_BadRecordNeverFailsTheBatch ==
    (CleanedOnce /\ prev.rows # <<>>) =>
        /\ status = "ok"
        /\ \A raw \in Range(RawRows) : Representable(raw) => Represented(raw)

\* A spelling of PM2.5: "pm2.5" or "pm25" in any case, with any white space,
\* underscores or hyphens.
IsSeparator(c) == c \in Whitespace \cup {"_", "-"}

Squeezed(text) == SelectSeq(text, LAMBDA c : ~IsSeparator(c))

IsPm25Spelling(cell) ==
    cell.kind = "str" /\ Squeezed(Lower(cell.s)) \in {PM25, PM25_COMPACT}

RawNamesPm25 == \E raw \in Range(RawRows) : IsPm25Spelling(raw[COL_POLLUTANT])

Pm25Remains == \E i \in DOMAIN frame.rows : frame.rows[i][COL_POLLUTANT] = Str(PM25)

\* The call has come to its consistency check (line 142).
CheckReached == CleanedOnce /\ status \in {"ok", "AssertionError"}

\* C10: when PM2.5 is in the raw input under any spelling and no pm25 record
\* remains, clean fails its explicit check instead of returning; when a pm25
\* record remains, or PM2.5 was not in the raw input, the check passes.
C10_SilentLossIsDetected ==
    CheckReached =>
        /\ (RawNamesPm25 /\ ~Pm25Remains) => status = "AssertionError"
        /\ (Pm25Remains \/ ~RawNamesPm25) => status = "ok"


(***************************************************************************)
(* aggregate_and_pivot.  The result `wide` is its list of column names    *)
(* and the set of its rows (the order of the rows is left out).           *)
(***************************************************************************)
\* The number of hours of a bucket of frequency freq: "D" is a day, "h" an hour.
HoursOf(freq) == IF freq = "D" THEN 24 ELSE 1

\* Lines 149-150: pd.to_datetime(..., errors="coerce") and .dt.floor(freq)
Floored(cell, freq) ==
    IF cell.kind = "timestamp" THEN Timestamp(cell.t - (cell.t % HoursOf(freq))) ELSE NaT

FlooredRow(row, freq) == (COL_TIMESTAMP :> Floored(row[COL_TIMESTAMP], freq)) @@ row

FlooredFrame(df, freq) ==
    Frame(df.columns, SelectSeq([i \in DOMAIN df.rows |-> FlooredRow(df.rows[i], freq)],
                                LAMBDA row : TRUE))

preferred_keys == <<COL_SOURCE_NAME, COL_LOCATION, COL_LATITUDE, COL_LONGITUDE, COL_TIMESTAMP>>

fallback_keys == <<COL_LOCATION, COL_LATITUDE, COL_LONGITUDE, COL_TIMESTAMP>>

\* Lines 154-157
stable_keys(columns) ==
    IF Range(preferred_keys) \subseteq Range(columns) THEN preferred_keys
    ELSE SelectSeq(fallback_keys, LAMBDA k : k \in Range(columns))

\* The values of a row under the keys, from key i on; in a group key every
\* missing value is the same value.
RECURSIVE KeyOf(_, _, _)
KeyOf(row, keys, i) ==
    IF i > Len(keys) THEN <<>> ELSE <<KeyCell(row[keys[i]])>> \o KeyOf(row, keys, i + 1)

RECURSIVE Sum(_, _)
Sum(values, i) == IF i > Len(values) THEN Int2Rat(0) ELSE FAdd(values[i], Sum(values, i + 1))

\* Series.mean(): the mean of the values that are not missing, NaN if none.
Mean(values) == IF values = <<>> THEN NaN ELSE FDiv(Sum(values, 1), Int2Rat(Len(values)))

ValuesOf(rows) ==
    SelectSeq([i \in DOMAIN rows |-> rows[i][COL_VALUE_STD]], LAMBDA cell : ~IsNA(cell))

\* Line 162: df.groupby(group_cols, dropna=False)["value_std"].mean(), one
\* record for every (key, pollutant) of the rows, missing key values included.
GroupedMean(rows, keys, key, pollutant) ==
    Mean(ValuesOf(SelectSeq(rows, LAMBDA row :
        KeyOf(row, keys, 1) = key /\ KeyCell(row[COL_POLLUTANT]) = pollutant)))

grouped(rows, keys) ==
    { [key |-> g[1], pollutant |-> g[2], value_std |-> GroupedMean(rows, keys, g[1], g[2])] :
        g \in { <<KeyOf(rows[i], keys, 1), KeyCell(rows[i][COL_POLLUTANT])>> : i \in DOMAIN rows } }

HasNA(key) == \E i \in DOMAIN key : IsNA(key[i])

\* Lines 164-169: pivot_table groups on index and columns again, with its
\* default dropna=True: the records with a missing value in their key or in
\* their pollutant are left out, and so are the records without a mean.
Pivoted(groups) ==
    { g \in groups : ~HasNA(g.key) /\ ~IsNA(g.pollutant) /\ ~IsNA(g.value_std) }

\* The pollutant columns of the pivot, in sorted order.
SortedPollutants == <<CO, NO2, O3, PM10, PM25, SO2>>

PollutantColumns(groups) ==
    SelectSeq(SortedPollutants, LAMBDA p : \E g \in groups : g.pollutant = Str(p))

\* The cell of the pivot for a key and a pollutant: the mean of the (one)
\* record of the group, NaN when there is none.
PivotCell(groups, key, p) ==
    IF \E g \in groups : g.key = key /\ g.pollutant = Str(p)
    THEN (CHOOSE g \in groups : g.key = key /\ g.pollutant = Str(p)).value_std
    ELSE NaN

\* Lines 171, 173-175: _first_non_null of an extra column in the group of a key
extra_cols(columns) == SelectSeq(<<COL_COUNTRY, COL_CITY>>, LAMBDA c : c \in Range(columns))

FirstNonNull(cells) == IF cells = <<>> THEN NaN ELSE cells[1]

MetaCell(rows, keys, key, col) ==
    FirstNonNull(SelectSeq(
        [i \in DOMAIN rows |-> IF KeyOf(rows[i], keys, 1) = key THEN rows[i][col] ELSE NaN],
        LAMBDA cell : ~IsNA(cell)))

WideColumns(df, keys, groups) == keys \o PollutantColumns(groups) \o extra_cols(df.columns)

\* The row of `wide` for a key: the key, the pollutant columns, the extra
\* columns (lines 177-182, merged on the key).
WideRow(df, keys, groups, key) ==
    [c \in Range(WideColumns(df, keys, groups)) |->
        IF c \in Range(keys) THEN key[CHOOSE i \in DOMAIN keys : keys[i] = c]
        ELSE IF c \in Range(SortedPollutants) THEN PivotCell(groups, key, c)
        ELSE MetaCell(df.rows, keys, key, c)]

\* `wide`: one row for every key of the pivot.
Wide(df, keys, groups) ==
    [columns |-> WideColumns(df, keys, groups),
     rows |-> { WideRow(df, keys, groups, key) : key \in { g.key : g \in groups } }]

\* Lines 158-185 on the frame with floored timestamps.
AggregateFloored(df, keys) ==
    IF keys = <<>> THEN Ended("ValueError", df)
    ELSE IF ~HasColumn(df, COL_POLLUTANT) \/ ~HasColumn(df, COL_VALUE_STD)
         THEN Ended("KeyError", df)
    ELSE Ended("ok", Wide(df, keys, Pivoted(grouped(df.rows, keys))))

\* aggregate_and_pivot(df_long, freq)
aggregate_and_pivot(df_long, freq) ==
    IF ~HasColumn(df_long, COL_TIMESTAMP) THEN Ended("KeyError", df_long)
    ELSE AggregateFloored(FlooredFrame(df_long, freq), stable_keys(df_long.columns))

(***************************************************************************)
(* Aggregation sessions: one call of aggregate_and_pivot on a frame of at  *)
(* most MaxRecords cleaned records that differ from a first reading (site  *)
(* A, 10 o'clock, pm25, 10 µg/m³) in one field; the frame has all columns  *)
(* of a cleaned frame, or lacks source_name, or lacks location.            *)
(***************************************************************************)
MaxRecords == 3

LongRecord(source_name, location, lat_lon, t, pollutant, value_std) ==
    [source_name |-> source_name, location |-> location, lat_lon |-> lat_lon,
     timestamp |-> Timestamp(t), pollutant |-> Str(pollutant), value_std |-> Int2Rat(value_std)]

SOURCE_EEA == Str(<<"E","E","A">>)
SOURCE_OTHER == Str(<<"G","O","V">>)
SiteCoordinates == LatLon(Rat(525, 10), Rat(134, 10))

LongRecords ==
    { LongRecord(SOURCE_EEA, Str(<<"A">>), SiteCoordinates, 10, PM25, 10),
      LongRecord(SOURCE_EEA, Str(<<"A">>), SiteCoordinates, 10, PM25, 20),
      LongRecord(SOURCE_EEA, Str(<<"A">>), SiteCoordinates, 10, PM10, 10),
      LongRecord(SOURCE_EEA, Str(<<"A">>), SiteCoordinates, 11, PM25, 10),
      LongRecord(SOURCE_EEA, Str(<<"A">>), SiteCoordinates, 34, PM25, 10),
      LongRecord(SOURCE_EEA, Str(<<"B">>), SiteCoordinates, 10, PM25, 10),
      LongRecord(SOURCE_EEA, Str(<<"A">>), LatLon(None, None), 10, PM25, 10),
      LongRecord(SOURCE_OTHER, Str(<<"A">>), SiteCoordinates, 10, PM25, 10) }

\* The cell of the k-th record r of a frame under column col.
LongCell(r, col, k) ==
    IF col = COL_SOURCE_NAME THEN r.source_name
    ELSE IF col = COL_LOCATION THEN r.location
    ELSE IF col = COL_LATITUDE THEN r.lat_lon.lat
    ELSE IF col = COL_LONGITUDE THEN r.lat_lon.lon
    ELSE IF col = COL_TIMESTAMP THEN r.timestamp
    ELSE IF col = COL_POLLUTANT THEN r.pollutant
    ELSE IF col = COL_VALUE_STD THEN r.value_std
    ELSE IF col = COL_UNIT_STD THEN UG_M3
    ELSE IF col = COL_CITY THEN Str(<<"S", Digits[k + 1]>>)
    ELSE Str(<<"D","E">>)

RECURSIVE LongRow(_, _, _, _)
LongRow(columns, r, k, i) ==
    IF i > Len(columns) THEN <<>>
    ELSE (columns[i] :> LongCell(r, columns[i], k)) @@ LongRow(columns, r, k, i + 1)

LongFrame(columns, records) ==
    Frame(columns, SelectSeq([k \in DOMAIN records |-> LongRow(columns, records[k], k, 1)],
                             LAMBDA row : TRUE))

Without(columns, col) == SelectSeq(columns, LAMBDA c : c # col)

LongColumns == { keep_cols, Without(keep_cols, COL_SOURCE_NAME), Without(keep_cols, COL_LOCATION) }

LongFrames ==
    { LongFrame(columns, records) :
        columns \in LongColumns,
        records \in UNION { [1..n -> LongRecords] : n \in 1..MaxRecords } }

AggregateCalls == [op : {"aggregate_and_pivot"}, df_long : LongFrames, freq : {"D", "h"}]

InitAggregate ==
    /\ pending \in { <<c>> : c \in AggregateCalls }
    /\ log = <<>>
    /\ frame = NoFrame /\ status = "idle" /\ prev = NoFrame /\ cleans = 0

CallAggregateAndPivot ==
    /\ pending # <<>> /\ Head(pending).op = "aggregate_and_pivot"
    /\ \E c \in {Head(pending)} : Serve(aggregate_and_pivot(c.df_long, c.freq))

NextAggregate == CallAggregateAndPivot

SpecAggregate == InitAggregate /\ [][NextAggregate]_vars


(***************************************************************************)
(* Claims about aggregate_and_pivot, on the calls that have returned.     *)
(***************************************************************************)
Aggregated == { log[i] : i \in { j \in Entries("aggregate_and_pivot") : log[j].ret.status = "ok" } }

\* The input of a call is a frame of cleaned records: it has the columns of
\* the (location, latitude, longitude, timestamp) key.
OfCleanedRecords(e) == Range(fallback_keys) \subseteq Range(e.call.df_long.columns)

\* The group key of the spec: the site identity, then the floored time bucket.
GroupKeyColumns(e) ==
    IF COL_SOURCE_NAME \in Range(e.call.df_long.columns) THEN preferred_keys ELSE fallback_keys

Absent(cell) == cell \in {None, NaN, NaT}

SameCell(a, b) == a = b \/ (Absent(a) /\ Absent(b))

GroupKeyCell(e, row, col) ==
    IF col = COL_TIMESTAMP THEN Floored(row[col], e.call.freq) ELSE row[col]

\* Input row `row` has the group key of input row `of`.
InGroupOf(e, row, of) ==
    \A col \in Range(GroupKeyColumns(e)) :
        SameCell(GroupKeyCell(e, row, col), GroupKeyCell(e, of, col))

\* Result row r is the row of the group of input row `of`.
IsRowOf(e, r, of) ==
    \A col \in Range(GroupKeyColumns(e)) :
        col \in DOMAIN r /\ SameCell(r[col], GroupKeyCell(e, of, col))

\* The readings of pollutant p in the group of input row `of`.
Readings(e, of, p) ==
    SelectSeq(e.call.df_long.rows,
              LAMBDA row : InGroupOf(e, row, of) /\ row[COL_POLLUTANT] = Str(p))

\* Result row r holds, for every pollutant, the mean of the readings of the
\* group of `of`, and nothing where the group has no reading.
HoldsMeans(e, r, of) ==
    \A p \in POLLUTANTS :
        IF Readings(e, of, p) = <<>> THEN p \notin DOMAIN r \/ Absent(r[p])
        ELSE p \in DOMAIN r /\ r[p] = Mean(ValuesOf(Readings(e, of, p)))

\* C11: aggregate returns exactly one row for each distinct group key (site
\* identity plus floored time bucket) of its input, the keys without latitude
\* and longitude included, and the row holds for each pollutant the mean of
\* the value_std of that key and pollutant, or nothing when there is none.
C11_OneRowOfMeansPerGroupKey ==
    \A e \in Aggregated :
        OfCleanedRecords(e) =>
            /\ \A of \in Range(e.call.df_long.rows) :
                  /\ Cardinality({ r \in e.ret.df.rows : IsRowOf(e, r, of) }) = 1
                  /\ \A r \in e.ret.df.rows : IsRowOf(e, r, of) => HoldsMeans(e, r, of)
            /\ \A r \in e.ret.df.rows :
                  \E of \in Range(e.call.df_long.rows) : IsRowOf(e, r, of)


Prefix(seq, n) == SubSeq(seq, 1, n)

\* The call has grouped on exactly these keys: they are the leading columns
\* of the result, and no other column of the two keys is in it.
GroupedOn(e, keys) ==
    /\ e.ret.status = "ok"
    /\ Len(e.ret.df.columns) >= Len(keys)
    /\ Prefix(e.ret.df.columns, Len(keys)) = keys
    /\ Range(e.ret.df.columns) \cap Range(preferred_keys) = Range(keys)

AllAvailable(e, keys) == Range(keys) \subseteq Range(e.call.df_long.columns)

\* C12: aggregate groups on (source_name, location, latitude, longitude,
\* time bucket) when all of these are available, otherwise on (location,
\* latitude, longitude, time bucket); when a field of that fallback key is
\* missing it fails with an error instead of grouping on a partial key.
C12_WholeKeyOrError ==
    \A i \in Entries("aggregate_and_pivot") :
        IF AllAvailable(log[i], preferred_keys) THEN GroupedOn(log[i], preferred_keys)
        ELSE IF AllAvailable(log[i], fallback_keys) THEN GroupedOn(log[i], fallback_keys)
        ELSE log[i].ret.status # "ok"


(***************************************************************************)
(* Calls of aqi_category.  A session is a pair of calls; the AQI values    *)
(* lie on, just below and just above every threshold of the function, and  *)
(* include the values an AQI can be undefined as.                          *)
(***************************************************************************)
CategoryThresholds == <<0, 50, 100, 150, 200, 300, 500>>

AqiValues ==
    { FAdd(Int2Rat(CategoryThresholds[i]), Rat(k, 2)) :
        i \in DOMAIN CategoryThresholds, k \in {-1, 0, 1} }
    \cup {Int2Rat(1000), Inf, NaN, None}

CategoryCalls == [op : {"aqi_category"}, aqi : AqiValues]

CategorySessions == { <<c1, c2>> : c1 \in CategoryCalls, c2 \in CategoryCalls }

InitCategory ==
    /\ pending \in CategorySessions
    /\ log = <<>>
    /\ frame = NoFrame /\ status = "idle" /\ prev = NoFrame /\ cleans = 0

CallAqiCategory ==
    /\ pending # <<>> /\ Head(pending).op = "aqi_category"
    /\ Serve(aqi_category(Head(pending).aqi))

NextCategory == CallAqiCategory

SpecCategory == InitCategory /\ [][NextCategory]_vars

(***************************************************************************)
(* Claims about aqi_category (checked under SpecCategory)                  *)
(***************************************************************************)
CategoryEntries == { log[i] : i \in Entries("aqi_category") }

Undefined(aqi) == aqi \in {None, NaN}

\* The categories in order of severity, each with the highest AQI it covers
\* (the last one has none).
CategorySteps ==
    <<[upto |-> 50, name |-> Good], [upto |-> 100, name |-> Moderate],
      [upto |-> 150, name |-> USG], [upto |-> 200, name |-> Unhealthy],
      [upto |-> 300, name |-> VeryUnhealthy]>>

\* The first step whose bound is at least aqi, 6 (Hazardous) when there is none.
Severity(aqi) ==
    IF \E k \in DOMAIN CategorySteps : FLe(aqi, Int2Rat(CategorySteps[k].upto))
    THEN CHOOSE k \in DOMAIN CategorySteps :
            /\ FLe(aqi, Int2Rat(CategorySteps[k].upto))
            /\ \A j \in 1..(k - 1) : ~FLe(aqi, Int2Rat(CategorySteps[j].upto))
    ELSE Len(CategorySteps) + 1

NameOf(severity) ==
    IF severity \in DOMAIN CategorySteps THEN CategorySteps[severity].name ELSE Hazardous

\* The position of a returned category in the order of severity.
SeverityOfName(name) ==
    IF name = Hazardous THEN Len(CategorySteps) + 1
    ELSE CHOOSE k \in DOMAIN CategorySteps : CategorySteps[k].name = name

\* C13: the category is a step function of the AQI alone (<=50 Good, <=100
\* Moderate, <=150 Unhealthy for Sensitive Groups, <=200 Unhealthy, <=300
\* Very Unhealthy, anything greater Hazardous, values above 500 included); it
\* is undefined exactly when the AQI is None or NaN; and a larger AQI never
\* gets a less severe category.
C13_CategoryIsAMonotoneStepFunction ==
    /\ \A e \in CategoryEntries :
          /\ (e.ret = None) <=> Undefined(e.call.aqi)
          /\ ~Undefined(e.call.aqi) => e.ret = NameOf(Severity(e.call.aqi))
    /\ \A e1 \in CategoryEntries, e2 \in CategoryEntries :
          /\ e1.call.aqi = e2.call.aqi => e1.ret = e2.ret
          /\ (/\ ~Undefined(e1.call.aqi)
               /\ ~Undefined(e2.call.aqi)
               /\ FLe(e1.call.aqi, e2.call.aqi))
                => SeverityOfName(e1.ret) <= SeverityOfName(e2.ret)

\* A threshold value and a value above 500 have both been categorised, the
\* second more severely than the first.
C13_Witness ==
    /\ Len(log) = 2
    /\ log[1].call.aqi = Int2Rat(50) /\ log[1].ret = Good
    /\ log[2].call.aqi = Rat(1001, 2) /\ log[2].ret = Hazardous


(***************************************************************************)
(* Claims about the breakpoint tables (checked under SpecAqi)              *)
(***************************************************************************)
Ascending(table) ==
    \A i \in DOMAIN table, j \in DOMAIN table :
        i < j => FLt(table[i].bp_low, table[j].bp_low)

WellFormedTier(bp) == FLe(bp.bp_low, bp.bp_high) /\ bp.i_low <= bp.i_high

NoOverlap(table) ==
    \A k \in 1..(Len(table) - 1) : FLt(table[k].bp_high, table[k + 1].bp_low)

\* c lies between the lowest and the highest concentration of p's table.
InsideTable(p, c) ==
    FLe(Table(p)[1].bp_low, c) /\ FLe(c, Table(p)[Len(Table(p))].bp_high)

MaxRowKeys == 1

\* Readings of the pollutant BreakpointKeys[i], in its canonical unit: none,
\* the bottom of the first tier, the top of tier i, the top of the last tier
\* and a value above it.
ReadingsFor(i) ==
    LET table == Table(BreakpointKeys[i])
    IN  { None, table[1].bp_low, table[i].bp_high, table[Len(table)].bp_high,
          FAdd(table[Len(table)].bp_high, Int2Rat(1)) }

\* Every dict over at most n of the keys BreakpointKeys[i..].
RECURSIVE RowsFrom(_, _)
RowsFrom(i, n) ==
    IF i > Len(BreakpointKeys) \/ n = 0 THEN {<<>>}
    ELSE RowsFrom(i + 1, n)
         \cup { (BreakpointKeys[i] :> v) @@ r : v \in ReadingsFor(i), r \in RowsFrom(i + 1, n - 1) }

SmallRows == RowsFrom(1, MaxRowKeys)

ExtendSession(row, i, v) ==
    <<[op |-> "compute_iaqi", pollutant |-> BreakpointKeys[i], concentration |-> v, unit |-> None],
      [op |-> "compute_aqi_row", row_values |-> row, units |-> None],
      [op |-> "compute_aqi_row", row_values |-> (BreakpointKeys[i] :> v) @@ row, units |-> None],
      [op |-> "compute_exact_aqi", standardized |-> (BreakpointKeys[i] :> v) @@ row]>>

\* The sessions that add to row a reading of a pollutant it does not hold.
ExtensionsOf(row) ==
    UNION { { ExtendSession(row, i, v) : v \in ReadingsFor(i) } :
              i \in { j \in DOMAIN BreakpointKeys : BreakpointKeys[j] \notin DOMAIN row } }

ExtendSessions == UNION { ExtensionsOf(row) : row \in SmallRows }

InitExtend ==
    /\ pending \in ExtendSessions
    /\ log = <<>>
    /\ frame = NoFrame /\ status = "idle" /\ prev = NoFrame /\ cleans = 0

NextExtend ==
    \/ CallComputeIaqi
    \/ CallComputeAqiRow
    \/ CallComputeExactAqi

SpecExtend == InitExtend /\ [][NextExtend]_vars

(***************************************************************************)
(* Claims about the range of the AQI (checked under SpecExtend)            *)
(***************************************************************************)
InRange(x, low, high) == FLe(Int2Rat(low), x) /\ FLe(x, Int2Rat(high))

\* row2 is row1 with one more key.
ExtendsByOne(row1, row2) ==
    /\ DOMAIN row1 \subseteq DOMAIN row2
    /\ Cardinality(DOMAIN row2 \ DOMAIN row1) = 1
    /\ \A p \in DOMAIN row1 : row2[p] = row1[p]

\* C15: a defined AQI of compute_aqi_row lies in [0, 500] and is the
\* sub-index of a pollutant present in the row; a defined sub-index lies in
\* [i_low, i_high] of the tier it matched; adding one more reading to a row
\* never lowers a defined AQI (nor makes it undefined); the exact AQI of the
\* backend is never above 500.
C15_AqiIsASubIndexInRange ==
    /\ \A i \in Entries("compute_aqi_row") :
          log[i].ret # None =>
              /\ InRange(log[i].ret, 0, 500)
              /\ \E p \in DOMAIN log[i].call.row_values \cap Pollutants :
                    log[i].ret = compute_iaqi(p, log[i].call.row_values[p],
                                              UnitFor(log[i].call.units, p))
    /\ \A i \in StandardizedCalls :
          log[i].ret # None =>
              LET bp == Table(log[i].call.pollutant)[FirstTier(log[i].call.pollutant,
                                                               log[i].call.concentration)]
              IN  InRange(log[i].ret, bp.i_low, bp.i_high)
    /\ \A i \in Entries("compute_aqi_row"), j \in Entries("compute_aqi_row") :
          (/\ ExtendsByOne(log[i].call.row_values, log[j].call.row_values)
           /\ log[i].call.units = log[j].call.units
           /\ log[i].ret # None)
              => (log[j].ret # None /\ FLe(log[i].ret, log[j].ret))
    /\ \A i \in Entries("compute_exact_aqi") :
          log[i].ret[1] # None => InRange(log[i].ret[1], 0, 500)

\* A row whose AQI is 50 (pm25 at the top of its first tier) got the no2
\* reading at the top of the last tier added: the AQI rose to 500, on the exact
\* path too.
C15_Witness ==
    /\ Len(log) = 4
    /\ log[1].call.pollutant = NO2 /\ log[1].ret = Int2Rat(500)
    /\ log[2].call.row_values = (PM25 :> Int2Rat(12))
    /\ log[2].ret = Int2Rat(50)
    /\ log[3].ret = Int2Rat(500)
    /\ log[4].ret[1] = Int2Rat(500)
====
